---- MODULE Spec2Model ----
(***************************************************************************)
(* Availability engine of BeachRooms (beach-rooms-expo/lib/availability.ts) *)
(*                                                                         *)
(* A Date is modelled as the number of milliseconds since local midnight   *)
(* of the Sunday that starts the week of the reference instant.  A TIME    *)
(* string ("HH:MM:SS" or "HH:MM") is modelled by the tuple of numbers that *)
(* timeString.split(':').map(Number) produces; the null / empty string is  *)
(* the empty tuple.  A nullable Date or number is Null when it is null.    *)
(* A part of a TIME string that is not a number is NaN, and so is the time *)
(* value of the Invalid Date that Date.setHours makes of it.               *)
(***************************************************************************)
EXTENDS Integers, Sequences, FiniteSets, TLC

VARIABLES building, schedules, now, verdict, fromTime, buildingCloses, nextWindow,
          durationInput, durationText,
          clock,                    \* the instant the caller read with new Date()
          timeInput, timeTexts,     \* a Date and the status texts that show it
          runs, classrooms, testTime, isLoading, error,   \* the useClassrooms hook
          refreshing                \* the home screen's pull-to-refresh flag

clockVars == <<timeInput, timeTexts>>

hookVars == <<runs, classrooms, testTime, isLoading, error, refreshing>>

vars == <<building, schedules, now, verdict, fromTime, buildingCloses, nextWindow,
          durationInput, durationText, clock, timeInput, timeTexts,
          runs, classrooms, testTime, isLoading, error, refreshing>>

----------------------------------------------------------------------------
(* Date arithmetic *)

Null == -1

\* the number NaN: Number('ab'), and the time value of an Invalid Date
NaN == -999999999

\* <, <=, >, >= of numbers and of Dates: false when an operand is NaN
lt(a, b) == a # NaN /\ b # NaN /\ a < b
le(a, b) == a # NaN /\ b # NaN /\ a <= b
gt(a, b) == a # NaN /\ b # NaN /\ a > b
ge(a, b) == a # NaN /\ b # NaN /\ a >= b

\* Number.prototype.toString
numberText(x) == IF x = NaN THEN "NaN" ELSE ToString(x)

MsPerSecond == 1000
MsPerMinute == 60000
MsPerHour == 60 * MsPerMinute
MsPerDay == 24 * MsPerHour

getDay(d) == (d \div MsPerDay) % 7
getHours(d) == IF d = NaN THEN NaN ELSE (d % MsPerDay) \div MsPerHour
getMinutes(d) == IF d = NaN THEN NaN ELSE (d % MsPerHour) \div MsPerMinute

\* Date.setHours(hours, minutes, seconds, 0) on a copy of referenceDate: a
\* missing minutes part (undefined) or a NaN part gives an Invalid Date, parts
\* out of range carry over into the next unit, and nothing is thrown
parseTimeToday(timeString, referenceDate) ==
    LET hours == timeString[1]
        minutes == IF Len(timeString) >= 2 THEN timeString[2] ELSE NaN
        seconds == IF Len(timeString) >= 3 THEN timeString[3] ELSE 0
    IN  IF hours = NaN \/ minutes = NaN \/ seconds = NaN
        THEN NaN
        ELSE (referenceDate \div MsPerDay) * MsPerDay
               + hours * MsPerHour + minutes * MsPerMinute + seconds * MsPerSecond

----------------------------------------------------------------------------
(* Building gate *)

\* mutation: setHours is applied to referenceDate itself
parseTimeTodayReference_inPlace(timeString, referenceDate) ==
    parseTimeToday(timeString, referenceDate)

\* referenceDate after parseTimeToday(timeString, referenceDate): setHours is
\* applied to the copy made by new Date(referenceDate), never to referenceDate
parseTimeTodayReference(timeString, referenceDate) == referenceDate

\* referenceDate after parseTimeToday has been called on it with each of the
\* time strings in turn
RECURSIVE referenceAfter(_, _)
referenceAfter(timeStrings, referenceDate) ==
    IF timeStrings = <<>>
    THEN referenceDate
    ELSE referenceAfter(Tail(timeStrings),
                        parseTimeTodayReference(Head(timeStrings), referenceDate))

\* the start and end strings of the rows, in the order they are parsed
timeStringsOf(scheds) ==
    [k \in 1..(2 * Len(scheds)) |->
        IF k % 2 = 1 THEN scheds[(k + 1) \div 2].start_time
                     ELSE scheds[k \div 2].end_time]

\* mutation: Saturday forgotten
isWeekendDay_sundayOnly(dayOfWeek) == dayOfWeek = 0

isWeekendDay(dayOfWeek) == dayOfWeek = 0 \/ dayOfWeek = 6

\* mutation: closing instant exclusive
isBuildingOpen_exclusiveClose(bld, n) ==
    LET dayOfWeek == getDay(n)
        openTime == bld.weekday_open
        closeTime == bld.weekday_close
    IN  IF isWeekendDay(dayOfWeek)
        THEN [isOpen |-> FALSE, opensAt |-> Null, closesAt |-> Null]
        ELSE IF openTime = <<>> \/ closeTime = <<>>
        THEN [isOpen |-> FALSE, opensAt |-> Null, closesAt |-> Null]
        ELSE LET opensAt == parseTimeToday(openTime, n)
                 closesAt == parseTimeToday(closeTime, n)
             IN  [isOpen |-> (ge(n, opensAt) /\ lt(n, closesAt)),
                  opensAt |-> opensAt, closesAt |-> closesAt]

isBuildingOpen(bld, n) ==
    LET dayOfWeek == getDay(n)
        openTime == bld.weekday_open
        closeTime == bld.weekday_close
    IN  IF isWeekendDay(dayOfWeek)
        THEN [isOpen |-> FALSE, opensAt |-> Null, closesAt |-> Null]
        ELSE IF openTime = <<>> \/ closeTime = <<>>
        THEN [isOpen |-> FALSE, opensAt |-> Null, closesAt |-> Null]
        ELSE LET opensAt == parseTimeToday(openTime, n)
                 closesAt == parseTimeToday(closeTime, n)
             IN  [isOpen |-> (ge(n, opensAt) /\ le(n, closesAt)),
                  opensAt |-> opensAt, closesAt |-> closesAt]

----------------------------------------------------------------------------
(* Formatting *)

\* hours % 12 || 12
displayHours(d) ==
    IF getHours(d) = NaN THEN 12
    ELSE IF getHours(d) % 12 = 0 THEN 12 ELSE getHours(d) % 12

\* minutes.toString().padStart(2, '0')
displayMinutes(d) ==
    IF lt(getMinutes(d), 10) THEN "0" \o numberText(getMinutes(d))
                             ELSE numberText(getMinutes(d))

\* mutation: noon falls on the AM side
ampm_afterNoon(d) == IF gt(getHours(d), 12) THEN "PM" ELSE "AM"

ampm(d) == IF ge(getHours(d), 12) THEN "PM" ELSE "AM"

clockText(d) == ToString(displayHours(d)) \o ":" \o displayMinutes(d) \o " " \o ampm(d)

formatTimeUntil(targetTime, prefix) == prefix \o " " \o clockText(targetTime)

\* mutation: the hour threshold inclusive
formatDuration_inclusiveHour(minutes) ==
    IF minutes <= 60
    THEN ToString(minutes) \o "m"
    ELSE LET hours == minutes \div 60
             remainingMinutes == minutes % 60
         IN  IF remainingMinutes = 0
             THEN ToString(hours) \o "h"
             ELSE ToString(hours) \o "h " \o ToString(remainingMinutes) \o "m"

\* mutation: the minutes part is not dropped on the full hour
formatDuration_alwaysMinutes(minutes) ==
    IF minutes < 60
    THEN ToString(minutes) \o "m"
    ELSE ToString(minutes \div 60) \o "h " \o ToString(minutes % 60) \o "m"

formatDuration(minutes) ==
    IF lt(minutes, 60)
    THEN numberText(minutes) \o "m"
    ELSE LET hours == IF minutes = NaN THEN NaN ELSE minutes \div 60
             remainingMinutes == IF minutes = NaN THEN NaN ELSE minutes % 60
         IN  IF remainingMinutes = 0
             THEN numberText(hours) \o "h"
             ELSE numberText(hours) \o "h " \o numberText(remainingMinutes) \o "m"

formatFreeAtWithDuration(time, durationMinutes) ==
    "Free at " \o clockText(time) \o " for " \o formatDuration(durationMinutes)

formatFreeUntilWithDuration(untilTime, durationMinutes) ==
    "Free until " \o clockText(untilTime) \o " (" \o formatDuration(durationMinutes) \o ")"

----------------------------------------------------------------------------
(* Usable gap finder *)

MIN_USABLE_MINUTES == 30

\* mutation: Math.ceil in place of Math.floor
minutesBetween_ceil(a, b) == ((b - a) + MsPerMinute - 1) \div MsPerMinute

\* Math.floor((b.getTime() - a.getTime()) / 60000)
minutesBetween(a, b) == IF a = NaN \/ b = NaN THEN NaN ELSE (b - a) \div MsPerMinute

NullWindow == [startsAt |-> Null, durationMinutes |-> Null]

\* schedules.map(s => ({start: parseTimeToday(..), end: parseTimeToday(..)}))
resolveSchedules(scheds, ref) ==
    [i \in 1..Len(scheds) |->
        [start |-> parseTimeToday(scheds[i].start_time, ref),
         end |-> parseTimeToday(scheds[i].end_time, ref)]]

\* .filter(s => s.end > fromTime)
filterFuture(rs, from) == SelectSeq(rs, LAMBDA s : gt(s.end, from))

\* the comparator (a, b) => a.start.getTime() - b.start.getTime(); a NaN
\* result counts as 0
compareStart(a, b) == IF a.start = NaN \/ b.start = NaN THEN 0 ELSE a.start - b.start

RECURSIVE insertByStart(_, _)
insertByStart(sorted, x) ==
    IF sorted = <<>> THEN <<x>>
    ELSE IF compareStart(sorted[Len(sorted)], x) <= 0
    THEN Append(sorted, x)
    ELSE Append(insertByStart(SubSeq(sorted, 1, Len(sorted) - 1), x), sorted[Len(sorted)])

\* .sort((a, b) => a.start.getTime() - b.start.getTime()), a stable sort
RECURSIVE sortByStart(_)
sortByStart(rs) ==
    IF rs = <<>> THEN <<>>
    ELSE insertByStart(sortByStart(SubSeq(rs, 1, Len(rs) - 1)), rs[Len(rs)])

futureSchedules(scheds, from) == sortByStart(filterFuture(resolveSchedules(scheds, from), from))

\* mutation: the cursor is moved to the start of the block, not to its end
RECURSIVE sweep_cursorAtStart(_, _, _, _)
sweep_cursorAtStart(fs, i, checkTime, closes) ==
    IF i > Len(fs)
    THEN LET remainingMinutes == minutesBetween(checkTime, closes)
         IN  IF ge(remainingMinutes, MIN_USABLE_MINUTES)
             THEN [startsAt |-> checkTime, durationMinutes |-> remainingMinutes]
             ELSE NullWindow
    ELSE LET gapMinutes == minutesBetween(checkTime, fs[i].start)
         IN  IF ge(gapMinutes, MIN_USABLE_MINUTES)
             THEN [startsAt |-> checkTime, durationMinutes |-> gapMinutes]
             ELSE sweep_cursorAtStart(fs, i + 1, fs[i].start, closes)

\* the for loop over futureSchedules, from its i-th element with cursor checkTime,
\* followed by the check against the closing time
RECURSIVE sweep(_, _, _, _)
sweep(fs, i, checkTime, closes) ==
    IF i > Len(fs)
    THEN LET remainingMinutes == minutesBetween(checkTime, closes)
         IN  IF ge(remainingMinutes, MIN_USABLE_MINUTES)
             THEN [startsAt |-> checkTime, durationMinutes |-> remainingMinutes]
             ELSE NullWindow
    ELSE LET gapMinutes == minutesBetween(checkTime, fs[i].start)
         IN  IF ge(gapMinutes, MIN_USABLE_MINUTES)
             THEN [startsAt |-> checkTime, durationMinutes |-> gapMinutes]
             ELSE sweep(fs, i + 1, fs[i].end, closes)

\* the values checkTime takes during the for loop: its initial value, then
\* its value after each block that did not end the search
RECURSIVE checkTimes(_, _, _)
checkTimes(fs, i, checkTime) ==
    IF i > Len(fs)
    THEN <<checkTime>>
    ELSE IF ge(minutesBetween(checkTime, fs[i].start), MIN_USABLE_MINUTES)
    THEN <<checkTime>>
    ELSE <<checkTime>> \o checkTimes(fs, i + 1, fs[i].end)

findNextUsableWindow(scheds, from, closes) ==
    sweep(futureSchedules(scheds, from), 1, from, closes)

\* the arguments of findNextUsableWindow after the call: map and filter build
\* new arrays, sort orders the new array in place, and fromTime is only
\* the reference date of the parses
findNextUsableWindowInputs(scheds, from) ==
    [schedules |-> scheds,
     fromTime |-> referenceAfter(timeStringsOf(scheds), from)]

----------------------------------------------------------------------------
(* Status classifier *)

\* mutation: the comparison with the opening time is turned around
isBeforeOpening_inverted(n, opensAt) == gt(n, opensAt)

isBeforeOpening(n, opensAt) == lt(n, opensAt)

\* mutation: comparison against the opening side of the closing time
isAfterHours_inverted(n, closesAt) == lt(n, closesAt)

isAfterHours(n, closesAt) == gt(n, closesAt)

\* mutation: the empty schedule is not singled out
hasNoClasses_never(scheds) == Len(scheds) < 0

hasNoClasses(scheds) == Len(scheds) = 0

\* mutation: start exclusive
isCurrentClass_exclusiveStart(n, startTime, endTime) == gt(n, startTime) /\ lt(n, endTime)

isCurrentClass(n, startTime, endTime) == ge(n, startTime) /\ lt(n, endTime)

\* mutation: threshold inclusive
isTooSoon_inclusive(minutesUntil) == le(minutesUntil, MIN_USABLE_MINUTES)

isTooSoon(minutesUntil) == lt(minutesUntil, MIN_USABLE_MINUTES)

\* mutation: the first future block is kept as next, later ones are not
\* compared with it
RECURSIVE scanClasses_firstNext(_, _, _, _, _)
scanClasses_firstNext(scheds, n, i, currentClass, nextClass) ==
    IF i > Len(scheds)
    THEN [currentClass |-> currentClass, nextClass |-> nextClass]
    ELSE LET startTime == parseTimeToday(scheds[i].start_time, n)
             endTime == parseTimeToday(scheds[i].end_time, n)
         IN  IF isCurrentClass(n, startTime, endTime)
             THEN scanClasses_firstNext(scheds, n, i + 1, i, nextClass)
             ELSE IF lt(n, startTime)
             THEN IF nextClass = 0
                  THEN scanClasses_firstNext(scheds, n, i + 1, currentClass, i)
                  ELSE scanClasses_firstNext(scheds, n, i + 1, currentClass, nextClass)
             ELSE scanClasses_firstNext(scheds, n, i + 1, currentClass, nextClass)

\* The scan loop from its i-th schedule; currentClass and nextClass are
\* positions in scheds, 0 standing for null.
RECURSIVE scanClasses(_, _, _, _, _)
scanClasses(scheds, n, i, currentClass, nextClass) ==
    IF i > Len(scheds)
    THEN [currentClass |-> currentClass, nextClass |-> nextClass]
    ELSE LET startTime == parseTimeToday(scheds[i].start_time, n)
             endTime == parseTimeToday(scheds[i].end_time, n)
         IN  IF isCurrentClass(n, startTime, endTime)
             THEN scanClasses(scheds, n, i + 1, i, nextClass)
             ELSE IF lt(n, startTime)
             THEN IF nextClass = 0
                     \/ lt(startTime, parseTimeToday(scheds[nextClass].start_time, n))
                  THEN scanClasses(scheds, n, i + 1, currentClass, i)
                  ELSE scanClasses(scheds, n, i + 1, currentClass, nextClass)
             ELSE scanClasses(scheds, n, i + 1, currentClass, nextClass)

closedVerdict(nextClassStartsAt, statusText, buildingOpen) ==
    [isAvailable |-> FALSE, isBuildingOpen |-> buildingOpen, status |-> "closed",
     nextClassStartsAt |-> nextClassStartsAt, currentClassEndsAt |-> Null,
     minutesUntilNextClass |-> Null, statusText |-> statusText]

windowText(w) ==
    IF w # NullWindow
    THEN formatFreeAtWithDuration(w.startsAt, w.durationMinutes)
    ELSE "Busy all day"

\* mutation: the text only reports the end of the current class
inUseVerdict_blockEndOnly(scheds, n, currentClass, nextClass, closesAt) ==
    LET endsAt == parseTimeToday(scheds[currentClass].end_time, n)
    IN  [isAvailable |-> FALSE, isBuildingOpen |-> TRUE, status |-> "in_use",
         nextClassStartsAt |-> IF nextClass # 0
                               THEN parseTimeToday(scheds[nextClass].start_time, n)
                               ELSE Null,
         currentClassEndsAt |-> endsAt,
         minutesUntilNextClass |-> Null,
         statusText |-> formatTimeUntil(endsAt, "Free at")]

\* mutation: the gap search starts at the reference instant, not at the
\* end of the current class
inUseVerdict_fromNow(scheds, n, currentClass, nextClass, closesAt) ==
    LET endsAt == parseTimeToday(scheds[currentClass].end_time, n)
        w == findNextUsableWindow(scheds, n, closesAt)
    IN  [isAvailable |-> FALSE, isBuildingOpen |-> TRUE, status |-> "in_use",
         nextClassStartsAt |-> IF nextClass # 0
                               THEN parseTimeToday(scheds[nextClass].start_time, n)
                               ELSE Null,
         currentClassEndsAt |-> endsAt,
         minutesUntilNextClass |-> Null,
         statusText |-> windowText(w)]

inUseVerdict(scheds, n, currentClass, nextClass, closesAt) ==
    LET endsAt == parseTimeToday(scheds[currentClass].end_time, n)
        w == findNextUsableWindow(scheds, endsAt, closesAt)
    IN  [isAvailable |-> FALSE, isBuildingOpen |-> TRUE, status |-> "in_use",
         nextClassStartsAt |-> IF nextClass # 0
                               THEN parseTimeToday(scheds[nextClass].start_time, n)
                               ELSE Null,
         currentClassEndsAt |-> endsAt,
         minutesUntilNextClass |-> Null,
         statusText |-> windowText(w)]

\* mutation: a limited room is flagged available
limitedVerdict_available(scheds, n, nextStartTime, minutesUntil, closesAt) ==
    LET w == findNextUsableWindow(scheds, n, closesAt)
    IN  [isAvailable |-> TRUE, isBuildingOpen |-> TRUE, status |-> "limited",
         nextClassStartsAt |-> nextStartTime, currentClassEndsAt |-> Null,
         minutesUntilNextClass |-> minutesUntil,
         statusText |-> windowText(w)]

limitedVerdict(scheds, n, nextStartTime, minutesUntil, closesAt) ==
    LET w == findNextUsableWindow(scheds, n, closesAt)
    IN  [isAvailable |-> FALSE, isBuildingOpen |-> TRUE, status |-> "limited",
         nextClassStartsAt |-> nextStartTime, currentClassEndsAt |-> Null,
         minutesUntilNextClass |-> minutesUntil,
         statusText |-> windowText(w)]

openUntilClassVerdict(nextStartTime, minutesUntil) ==
    [isAvailable |-> TRUE, isBuildingOpen |-> TRUE, status |-> "open",
     nextClassStartsAt |-> nextStartTime, currentClassEndsAt |-> Null,
     minutesUntilNextClass |-> minutesUntil,
     statusText |-> formatFreeUntilWithDuration(nextStartTime, minutesUntil)]

openUntilCloseVerdict(n, closesAt) ==
    LET minutesUntilClose == minutesBetween(n, closesAt)
    IN  [isAvailable |-> TRUE, isBuildingOpen |-> TRUE, status |-> "open",
         nextClassStartsAt |-> Null, currentClassEndsAt |-> Null,
         minutesUntilNextClass |-> Null,
         statusText |-> formatFreeUntilWithDuration(closesAt, minutesUntilClose)]

calculateAvailability(bld, scheds, n) ==
    LET isWeekend == isWeekendDay(getDay(n))
        buildingStatus == isBuildingOpen(bld, n)
    IN  IF buildingStatus.opensAt = Null \/ buildingStatus.closesAt = Null
        THEN closedVerdict(Null,
                 IF isWeekend THEN "Closed on weekends" ELSE "No classes today", FALSE)
        ELSE IF isBeforeOpening(n, buildingStatus.opensAt)
        THEN closedVerdict(buildingStatus.opensAt,
                 formatTimeUntil(buildingStatus.opensAt, "Opens at"), FALSE)
        ELSE IF isAfterHours(n, buildingStatus.closesAt)
        THEN closedVerdict(Null, "Building closed", FALSE)
        ELSE IF hasNoClasses(scheds)
        THEN closedVerdict(Null, "No classes today", buildingStatus.isOpen)
        ELSE LET scan == scanClasses(scheds, n, 1, 0, 0)
             IN  IF scan.currentClass # 0
                 THEN inUseVerdict(scheds, n, scan.currentClass, scan.nextClass,
                                   buildingStatus.closesAt)
                 ELSE IF scan.nextClass # 0
                 THEN LET nextStartTime ==
                              parseTimeToday(scheds[scan.nextClass].start_time, n)
                          minutesUntil == minutesBetween(n, nextStartTime)
                      IN  IF isTooSoon(minutesUntil)
                          THEN limitedVerdict(scheds, n, nextStartTime, minutesUntil,
                                              buildingStatus.closesAt)
                          ELSE openUntilClassVerdict(nextStartTime, minutesUntil)
                 ELSE openUntilCloseVerdict(n, buildingStatus.closesAt)

\* the arguments of calculateAvailability after the call that returned the
\* verdict v: now is the reference date of the parses of the building hours,
\* of the rows in the scan, and of the gap search of a limited verdict; the
\* rows are only read, and handed to the gap search of an in_use or limited
\* verdict
calculateAvailabilityInputs(bld, scheds, n, v) ==
    LET hours == IF \/ isWeekendDay(getDay(n))
                    \/ bld.weekday_open = <<>> \/ bld.weekday_close = <<>>
                 THEN <<>>
                 ELSE <<bld.weekday_open, bld.weekday_close>>
        rows == IF v.status = "closed" THEN <<>> ELSE timeStringsOf(scheds)
        afterScan == referenceAfter(hours \o rows, n)
    IN  [schedules |-> IF v.status \in {"in_use", "limited"}
                       THEN findNextUsableWindowInputs(scheds, n).schedules
                       ELSE scheds,
         now |-> IF v.status = "limited"
                 THEN findNextUsableWindowInputs(scheds, afterScan).fromTime
                 ELSE afterScan]

----------------------------------------------------------------------------
(* Inputs *)

MaxBlocks == 2

Sunday == 0
Monday == 1
Saturday == 6

\* the instant h:m:s.ms of the given day of the week
At(day, h, m, sec, ms) ==
    day * MsPerDay + h * MsPerHour + m * MsPerMinute + sec * MsPerSecond + ms

\* TIME strings of schedule rows, with and without a seconds part
BlockTimes ==
    {<<9, 0, 0>>, <<10, 15>>, <<10, 44, 59>>, <<22, 15, 0>>, <<22, 45, 0>>, <<23, 30>>}

\* schedule rows whose end is strictly after their start
Blocks ==
    {b \in [start_time : BlockTimes, end_time : BlockTimes] :
        parseTimeToday(b.start_time, 0) < parseTimeToday(b.end_time, 0)}

RECURSIVE SeqsUpTo(_, _)
SeqsUpTo(S, n) ==
    IF n = 0 THEN {<<>>}
    ELSE LET shorter == SeqsUpTo(S, n - 1)
         IN  shorter \cup {Append(q, x) : q \in {r \in shorter : Len(r) = n - 1}, x \in S}

ScheduleInputs == SeqsUpTo(Blocks, MaxBlocks)

Buildings ==
    {[weekday_open |-> <<8, 0, 0>>, weekday_close |-> <<22, 0, 0>>],
     [weekday_open |-> <<>>, weekday_close |-> <<22, 0, 0>>],
     [weekday_open |-> <<8, 0, 0>>, weekday_close |-> <<>>],
     [weekday_open |-> <<>>, weekday_close |-> <<>>]}

\* reference instants: around opening, around a 30 minute gap, at block
\* boundaries, around closing, and on both weekend days
NowInstants ==
    {At(Monday, 7, 0, 0, 0), At(Monday, 8, 0, 0, 0),
     At(Monday, 8, 30, 0, 0), At(Monday, 8, 30, 0, 1), At(Monday, 8, 50, 0, 0),
     At(Monday, 9, 0, 0, 0), At(Monday, 9, 30, 0, 0),
     At(Monday, 10, 15, 0, 0), At(Monday, 10, 20, 30, 0),
     At(Monday, 21, 0, 0, 0), At(Monday, 21, 30, 0, 0), At(Monday, 21, 40, 0, 0),
     At(Monday, 22, 0, 0, 0), At(Monday, 22, 0, 0, 1),
     At(Monday, 22, 30, 0, 0), At(Monday, 23, 45, 0, 0),
     At(Saturday, 9, 30, 0, 0), At(Sunday, 9, 30, 0, 0)}

FromInstants ==
    {At(Monday, 8, 30, 0, 0), At(Monday, 8, 30, 0, 1), At(Monday, 9, 30, 0, 0),
     At(Monday, 10, 15, 0, 0), At(Monday, 21, 30, 0, 0), At(Monday, 21, 45, 0, 0),
     At(Monday, 22, 15, 0, 0), At(Monday, 22, 45, 0, 0)}

CloseInstants == {At(Monday, 22, 0, 0, 0), At(Monday, 23, 30, 0, 0)}

\* schedule rows whose end is not after their start: one of zero duration and
\* two of negative duration
InvalidBlocks ==
    {[start_time |-> <<9, 0, 0>>, end_time |-> <<9, 0, 0>>],
     [start_time |-> <<10, 44, 59>>, end_time |-> <<10, 15>>],
     [start_time |-> <<22, 15, 0>>, end_time |-> <<10, 15>>]}

InvalidScheduleInputs == SeqsUpTo(Blocks \cup InvalidBlocks, MaxBlocks)

\* schedule rows with a malformed TIME string: a part that is not a number
\* ("ab:00:00", "10:xx"), a single part ("9"), an hour above 23, a minute
\* above 59
MalformedBlocks ==
    {[start_time |-> <<NaN, 0, 0>>, end_time |-> <<10, 15>>],
     [start_time |-> <<9, 0, 0>>, end_time |-> <<10, NaN>>],
     [start_time |-> <<9>>, end_time |-> <<10, 15>>],
     [start_time |-> <<25, 0, 0>>, end_time |-> <<26, 0, 0>>],
     [start_time |-> <<9, 0, 0>>, end_time |-> <<9, 75>>]}

WellFormedBlocks ==
    {[start_time |-> <<9, 0, 0>>, end_time |-> <<10, 15>>],
     [start_time |-> <<22, 15, 0>>, end_time |-> <<23, 30>>]}

MalformedScheduleInputs == SeqsUpTo(MalformedBlocks \cup WellFormedBlocks, MaxBlocks)

MalformedBuildings ==
    {[weekday_open |-> <<8, 0, 0>>, weekday_close |-> <<22, 0, 0>>],
     [weekday_open |-> <<8, 0, 0>>, weekday_close |-> <<NaN, 0, 0>>],
     [weekday_open |-> <<8>>, weekday_close |-> <<22, 0, 0>>]}

NoVerdict == [pending |-> TRUE]
NotCalled == [pending |-> TRUE]
NotFormatted == ""

MaxMinutes == 200

NoTexts == [pending |-> TRUE]

\* no status text has been asked for
ClockIdle == timeInput = Null /\ timeTexts = NoTexts

\* the hook is not mounted
HookIdle ==
    /\ runs = <<>>
    /\ classrooms = 0
    /\ testTime = Null
    /\ isLoading = TRUE
    /\ error = Null
    /\ refreshing = FALSE

----------------------------------------------------------------------------
(* The classifier, re-evaluated from scratch on every refresh *)

Init ==
    /\ building \in Buildings
    /\ schedules \in ScheduleInputs
    /\ now \in NowInstants
    /\ verdict = NoVerdict
    /\ fromTime = Null
    /\ buildingCloses = Null
    /\ nextWindow = NotCalled
    /\ durationInput = 0
    /\ durationText = NotFormatted
    /\ clock = now
    /\ ClockIdle
    /\ HookIdle

\* One evaluation at an instant of the given set: the clock is read (it never
\* runs backwards), the verdict is computed from the stored hours and blocks,
\* and the caller keeps the Date and the array it passed in.
RefreshAt(instants) ==
    \E t \in instants :
        /\ t >= clock
        /\ clock' = t
        /\ verdict' = calculateAvailability(building, schedules, t)
        /\ now' = calculateAvailabilityInputs(building, schedules, t, verdict').now
        /\ schedules' = calculateAvailabilityInputs(building, schedules, t, verdict').schedules
        /\ UNCHANGED <<building, fromTime, buildingCloses, nextWindow,
                       durationInput, durationText, clockVars, hookVars>>

Refresh == RefreshAt(NowInstants)

Next == Refresh

Spec == Init /\ [][Next]_vars

----------------------------------------------------------------------------
(* The gap finder on its own *)

WindowInit ==
    /\ schedules \in ScheduleInputs
    /\ fromTime \in FromInstants
    /\ buildingCloses \in CloseInstants
    /\ nextWindow = NotCalled
    /\ building = [weekday_open |-> <<>>, weekday_close |-> <<>>]
    /\ now = Null
    /\ verdict = NoVerdict
    /\ durationInput = 0
    /\ durationText = NotFormatted
    /\ clock = now
    /\ ClockIdle
    /\ HookIdle

FindWindow ==
    /\ nextWindow = NotCalled
    /\ nextWindow' = findNextUsableWindow(schedules, fromTime, buildingCloses)
    /\ schedules' = findNextUsableWindowInputs(schedules, fromTime).schedules
    /\ fromTime' = findNextUsableWindowInputs(schedules, fromTime).fromTime
    /\ UNCHANGED <<building, now, verdict, buildingCloses,
                   durationInput, durationText, clock, clockVars, hookVars>>

WindowNext == FindWindow

WindowSpec == WindowInit /\ [][WindowNext]_vars

----------------------------------------------------------------------------
(* The gap finder on schedules that may hold rows whose end is not after
   their start *)

InvalidInit ==
    /\ schedules \in InvalidScheduleInputs
    /\ fromTime \in FromInstants
    /\ buildingCloses \in CloseInstants
    /\ nextWindow = NotCalled
    /\ building = [weekday_open |-> <<>>, weekday_close |-> <<>>]
    /\ now = Null
    /\ verdict = NoVerdict
    /\ durationInput = 0
    /\ durationText = NotFormatted
    /\ clock = now
    /\ ClockIdle
    /\ HookIdle

InvalidSpec == InvalidInit /\ [][WindowNext]_vars

----------------------------------------------------------------------------
(* The duration formatter on its own *)

FormatInit ==
    /\ durationInput \in 0..MaxMinutes
    /\ durationText = NotFormatted
    /\ schedules = <<>>
    /\ fromTime = Null
    /\ buildingCloses = Null
    /\ nextWindow = NotCalled
    /\ building = [weekday_open |-> <<>>, weekday_close |-> <<>>]
    /\ now = Null
    /\ verdict = NoVerdict
    /\ clock = now
    /\ ClockIdle
    /\ HookIdle

FormatDurationCall ==
    /\ durationText = NotFormatted
    /\ durationText' = formatDuration(durationInput)
    /\ UNCHANGED <<building, schedules, now, verdict, fromTime, buildingCloses,
                   nextWindow, durationInput, clock, clockVars, hookVars>>

FormatNext == FormatDurationCall

FormatSpec == FormatInit /\ [][FormatNext]_vars

----------------------------------------------------------------------------
(* The classifier on rows and hours that may hold malformed TIME strings *)

MalformedInit ==
    /\ building \in MalformedBuildings
    /\ schedules \in MalformedScheduleInputs
    /\ now \in NowInstants
    /\ verdict = NoVerdict
    /\ fromTime = Null
    /\ buildingCloses = Null
    /\ nextWindow = NotCalled
    /\ durationInput = 0
    /\ durationText = NotFormatted
    /\ clock = now
    /\ ClockIdle
    /\ HookIdle

MalformedSpec == MalformedInit /\ [][Next]_vars

----------------------------------------------------------------------------
(* Vocabulary of the properties: the inputs as the reference instant sees them *)

Evaluated == verdict # NoVerdict

StatusValues == {"open", "in_use", "limited", "closed"}

IsWeekday == getDay(now) \in 1..5

HasHours == building.weekday_open # <<>> /\ building.weekday_close # <<>>

OpensAt == parseTimeToday(building.weekday_open, now)
ClosesAt == parseTimeToday(building.weekday_close, now)

BuildingOpenNow == IsWeekday /\ HasHours /\ OpensAt <= now /\ now <= ClosesAt

BlockStart(i) == parseTimeToday(schedules[i].start_time, now)
BlockEnd(i) == parseTimeToday(schedules[i].end_time, now)

BlockIndices == 1..Len(schedules)

CurrentBlocks == {i \in BlockIndices : BlockStart(i) <= now /\ now < BlockEnd(i)}

FutureStarts == {BlockStart(i) : i \in {j \in BlockIndices : BlockStart(j) > now}}

SetMin(S) == CHOOSE x \in S : \A y \in S : x <= y

WholeMinutes(a, b) == (b - a) \div 60000

ExpectedWindowText(w) ==
    IF w = NullWindow
    THEN "Busy all day"
    ELSE formatFreeAtWithDuration(w.startsAt, w.durationMinutes)

----------------------------------------------------------------------------
(* Properties of the classifier *)

\* C1: every evaluation yields exactly one of the four statuses, and the
\* status is the one of the single branch condition the input satisfies:
\* closed (building not open, or no block today), in_use (a block is
\* current), limited (next block fewer than 30 minutes away), open (otherwise).
C1_ExactlyOneStatus ==
    Evaluated =>
        LET closedCase == ~BuildingOpenNow \/ schedules = <<>>
            inUseCase == ~closedCase /\ CurrentBlocks # {}
            limitedCase == /\ ~closedCase /\ CurrentBlocks = {} /\ FutureStarts # {}
                           /\ WholeMinutes(now, SetMin(FutureStarts)) < 30
            openCase == ~closedCase /\ ~inUseCase /\ ~limitedCase
        IN  /\ verdict.status \in StatusValues
            /\ (verdict.status = "closed") = closedCase
            /\ (verdict.status = "in_use") = inUseCase
            /\ (verdict.status = "limited") = limitedCase
            /\ (verdict.status = "open") = openCase

C1_Witness == Evaluated /\ verdict.status = "limited" /\ Len(schedules) = 2

\* C2: an available verdict means the building is open on a weekday, the room
\* has a block today, no block is current, and every block that starts after
\* the reference instant starts at least 30 whole minutes after it.
C2_AvailableIsSafe ==
    (Evaluated /\ verdict.isAvailable) =>
        /\ BuildingOpenNow
        /\ Len(schedules) >= 1
        /\ CurrentBlocks = {}
        /\ \A st \in FutureStarts : WholeMinutes(now, st) >= 30

C2_Witness == Evaluated /\ verdict.isAvailable /\ FutureStarts # {}

\* C3: building open and no block for the day gives closed, not available,
\* "No classes today".
C3_NoClassesIsClosed ==
    (Evaluated /\ BuildingOpenNow /\ schedules = <<>>) =>
        /\ verdict.status = "closed"
        /\ verdict.isAvailable = FALSE
        /\ verdict.statusText = "No classes today"

C3_Witness == Evaluated /\ BuildingOpenNow /\ schedules = <<>>

\* C4: on Saturday and Sunday the verdict is closed, not available, building
\* not open, "Closed on weekends", and the gate reports not open with no
\* bounds, whatever hours and blocks are stored.
C4_WeekendIsClosed ==
    (Evaluated /\ getDay(now) \in {0, 6}) =>
        /\ verdict.status = "closed"
        /\ verdict.isAvailable = FALSE
        /\ verdict.isBuildingOpen = FALSE
        /\ verdict.statusText = "Closed on weekends"
        /\ isBuildingOpen(building, now).isOpen = FALSE
        /\ isBuildingOpen(building, now).opensAt = Null
        /\ isBuildingOpen(building, now).closesAt = Null

C4_Witness == Evaluated /\ getDay(now) = 6 /\ HasHours /\ schedules # <<>>

AfterClose == IsWeekday /\ HasHours /\ now > ClosesAt

SameDay(a, b) == a \div MsPerDay = b \div MsPerDay

\* C5: every evaluation strictly after closing is closed, and from such an
\* evaluation every later evaluation of the same day is closed too.
C5_ClosedAfterClosing ==
    /\ []((Evaluated /\ AfterClose) => verdict.status = "closed")
    /\ [][(Evaluated /\ AfterClose /\ verdict.status = "closed" /\ SameDay(now, now'))
            => verdict'.status = "closed"]_vars

C5_Witness == Evaluated /\ AfterClose /\ CurrentBlocks # {} /\ FutureStarts # {}

\* C6: building open and a block current gives in_use, not available,
\* currentClassEndsAt the end of a current block, and the text "Free at .."
\* of the window the gap finder returns from that end, "Busy all day" when it
\* returns none.
C6_InUse ==
    (Evaluated /\ BuildingOpenNow /\ CurrentBlocks # {}) =>
        /\ verdict.status = "in_use"
        /\ verdict.isAvailable = FALSE
        /\ verdict.currentClassEndsAt \in {BlockEnd(i) : i \in CurrentBlocks}
        /\ verdict.statusText =
             ExpectedWindowText(
                 findNextUsableWindow(schedules, verdict.currentClassEndsAt, ClosesAt))

C6_Witness ==
    /\ Evaluated /\ BuildingOpenNow /\ CurrentBlocks # {}
    /\ verdict.statusText # "Busy all day"
    /\ Len(schedules) = 2

\* C7: building open, no block current and the nearest future block fewer
\* than 30 whole minutes away gives limited, not available, the whole minutes
\* until that start, and the gap finder's text searched from the reference
\* instant.
C7_Limited ==
    (/\ Evaluated /\ BuildingOpenNow /\ CurrentBlocks = {} /\ FutureStarts # {}
     /\ WholeMinutes(now, SetMin(FutureStarts)) < 30) =>
        /\ verdict.status = "limited"
        /\ verdict.isAvailable = FALSE
        /\ verdict.minutesUntilNextClass = WholeMinutes(now, SetMin(FutureStarts))
        /\ verdict.statusText =
             ExpectedWindowText(findNextUsableWindow(schedules, now, ClosesAt))

C7_Witness ==
    /\ Evaluated /\ BuildingOpenNow /\ CurrentBlocks = {} /\ FutureStarts # {}
    /\ WholeMinutes(now, SetMin(FutureStarts)) = 29
    /\ now % MsPerMinute # 0

\* C8: an open verdict shows "Free until" the earlier of the next block's
\* start and the closing time, with the whole minutes until that bound.
C8_FreeUntilEarlierBound ==
    (Evaluated /\ verdict.status = "open") =>
        LET bound == IF FutureStarts # {} /\ SetMin(FutureStarts) < ClosesAt
                     THEN SetMin(FutureStarts)
                     ELSE ClosesAt
        IN  verdict.statusText =
                formatFreeUntilWithDuration(bound, WholeMinutes(now, bound))

\* C9: an open verdict means 30 free minutes from the reference instant: no
\* block starts and the building does not close within them.
C9_OpenHasThirtyMinutes ==
    (Evaluated /\ verdict.status = "open") =>
        /\ \A st \in FutureStarts : st - now >= 30 * 60000
        /\ ClosesAt - now >= 30 * 60000

----------------------------------------------------------------------------
(* Properties of the gap finder *)

Called == nextWindow # NotCalled

WStart(i) == parseTimeToday(schedules[i].start_time, fromTime)
WEnd(i) == parseTimeToday(schedules[i].end_time, fromTime)

NonOverlapping ==
    \A i, j \in BlockIndices : i # j => (WEnd(i) <= WStart(j) \/ WEnd(j) <= WStart(i))

ActiveAt(t) == \E i \in BlockIndices : WStart(i) <= t /\ t < WEnd(i)

StartsAfter(t) == {WStart(i) : i \in {j \in BlockIndices : WStart(j) > t}}

\* the end of the free time that begins at t: the next block start, or the
\* closing time when no block starts after t
FreeUntil(t) == IF StartsAfter(t) # {} THEN SetMin(StartsAfter(t)) ELSE buildingCloses

\* t is an instant not after closing at which no block is active and from
\* which the room stays free for at least 30 minutes
UsableAt(t) ==
    /\ t >= fromTime
    /\ t <= buildingCloses
    /\ ~ActiveAt(t)
    /\ FreeUntil(t) - t >= 30 * 60000

\* Free time begins at fromTime or at the end of a block, so the earliest
\* usable instant, when there is one, is one of these.
UsableStarts == {t \in {fromTime} \cup {WEnd(i) : i \in BlockIndices} : UsableAt(t)}

\* C10: for non-overlapping blocks the gap finder returns the earliest usable
\* instant at or after fromTime and not after closing, with the whole minutes
\* from it to the next block start or to closing, and null exactly when there
\* is no such instant.
C10_EarliestUsableWindow ==
    (Called /\ NonOverlapping) =>
        IF UsableStarts = {}
        THEN nextWindow = NullWindow
        ELSE LET t == SetMin(UsableStarts)
             IN  nextWindow = [startsAt |-> t,
                               durationMinutes |-> WholeMinutes(t, FreeUntil(t))]

----------------------------------------------------------------------------
(* Tie-break of the scan *)

\* C11: when two or more blocks are current, the block treated as current
\* (whose end becomes currentClassEndsAt) is the first of them in input order.
C11_FirstCurrentWins ==
    (Evaluated /\ BuildingOpenNow /\ Cardinality(CurrentBlocks) >= 2) =>
        verdict.currentClassEndsAt = BlockEnd(SetMin(CurrentBlocks))

----------------------------------------------------------------------------
(* Building gate *)

\* the instant of the reference day that a well-formed TIME string denotes
InstantOfDay(ts, ref) ==
    (ref - (ref % (24 * 3600000)))
      + ts[1] * 3600000 + ts[2] * 60000 + (IF Len(ts) = 3 THEN ts[3] * 1000 ELSE 0)

\* C14: on a weekday with both times stored the gate returns both bounds on
\* the reference date, open or not, and isOpen exactly when
\* opensAt <= now <= closesAt; on a weekend or with a time missing, and only
\* then, it returns not open with both bounds null.
C14_GateBounds ==
    Evaluated =>
        LET gate == isBuildingOpen(building, now)
        IN  IF IsWeekday /\ HasHours
            THEN /\ gate.opensAt = InstantOfDay(building.weekday_open, now)
                 /\ gate.closesAt = InstantOfDay(building.weekday_close, now)
                 /\ gate.opensAt # Null /\ gate.closesAt # Null
                 /\ gate.isOpen = (gate.opensAt <= now /\ now <= gate.closesAt)
            ELSE gate = [isOpen |-> FALSE, opensAt |-> Null, closesAt |-> Null]

C14_Witness ==
    /\ Evaluated /\ IsWeekday /\ HasHours
    /\ now = ClosesAt
    /\ isBuildingOpen(building, now).isOpen

----------------------------------------------------------------------------
(* Scenarios: building 8:00-22:00 on a weekday, one block 09:00-10:15 *)

ScenarioInputs ==
    /\ building = [weekday_open |-> <<8, 0, 0>>, weekday_close |-> <<22, 0, 0>>]
    /\ schedules = <<[start_time |-> <<9, 0, 0>>, end_time |-> <<10, 15>>]>>

ScenarioA == ScenarioInputs /\ now = At(Monday, 8, 0, 0, 0)

ScenarioB == ScenarioInputs /\ now = At(Monday, 9, 30, 0, 0)

\* C17 as stated: at 08:00 the verdict is open with the text
\* "Free until 9:00 AM (1h 0m)".
C17_ScenarioA_AsStated ==
    (Evaluated /\ ScenarioA) =>
        /\ verdict.status = "open"
        /\ verdict.statusText = "Free until 9:00 AM (1h 0m)"

\* C17 amended: at 08:00 the verdict is open with the text
\* "Free until 9:00 AM (1h)", the minutes part being dropped on the full hour.
C17_ScenarioA ==
    (Evaluated /\ ScenarioA) =>
        /\ verdict.status = "open"
        /\ verdict.statusText = "Free until 9:00 AM (1h)"

C17_Witness == Evaluated /\ ScenarioA /\ verdict.isAvailable

\* C18: at 09:30, inside the block, the verdict is in_use, the current class
\* ends at 10:15 and the text is "Free at 10:15 AM for 11h 45m".
C18_ScenarioB ==
    (Evaluated /\ ScenarioB) =>
        /\ verdict.status = "in_use"
        /\ verdict.currentClassEndsAt = At(Monday, 10, 15, 0, 0)
        /\ verdict.statusText = "Free at 10:15 AM for 11h 45m"

C18_Witness == Evaluated /\ ScenarioB /\ ~verdict.isAvailable

----------------------------------------------------------------------------
(* Occupancy scan *)

ScanReached == Evaluated /\ BuildingOpenNow /\ schedules # <<>>

\* C20: in the scan a block is current exactly when start <= now < end, the
\* next block is the one of minimum start among the blocks starting strictly
\* after now, whatever the input order, and nextClassStartsAt is null exactly
\* when no block starts after now.
C20_ScanCurrentAndNext ==
    ScanReached =>
        LET scan == scanClasses(schedules, now, 1, 0, 0)
        IN  /\ (scan.currentClass # 0) = (CurrentBlocks # {})
            /\ scan.currentClass # 0 => scan.currentClass \in CurrentBlocks
            /\ (verdict.status = "in_use") = (CurrentBlocks # {})
            /\ (scan.nextClass = 0) = (FutureStarts = {})
            /\ scan.nextClass # 0 => BlockStart(scan.nextClass) = SetMin(FutureStarts)
            /\ (verdict.nextClassStartsAt = Null) = (FutureStarts = {})
            /\ FutureStarts # {} => verdict.nextClassStartsAt = SetMin(FutureStarts)

C20_Witness ==
    /\ ScanReached
    /\ Len(schedules) = 2
    /\ BlockStart(1) > BlockStart(2)
    /\ BlockStart(2) > now

----------------------------------------------------------------------------
(* The cursor of the sweep *)

\* C19: during the sweep the cursor never decreases: after each block of the
\* sorted list it is at least its previous value and at least fromTime.
C19_CursorNeverDecreases ==
    Called =>
        LET cursor == checkTimes(futureSchedules(schedules, fromTime), 1, fromTime)
        IN  \A k \in 2..Len(cursor) :
                cursor[k] >= cursor[k - 1] /\ cursor[k] >= fromTime

----------------------------------------------------------------------------
(* Rows whose end is not after their start *)

IsInvalidBlock(i) == WEnd(i) <= WStart(i)

WithoutBlock(i) == SubSeq(schedules, 1, i - 1) \o SubSeq(schedules, i + 1, Len(schedules))

\* C13: a block whose end is not after its start never widens a usable gap:
\* with it the gap finder returns no window where it returned none without
\* it, and no window that starts earlier than the one returned without it.
C13_InvalidBlockNeverWidens ==
    Called =>
        \A i \in BlockIndices :
            IsInvalidBlock(i) =>
                LET without == findNextUsableWindow(WithoutBlock(i), fromTime, buildingCloses)
                IN  /\ without = NullWindow => nextWindow = NullWindow
                    /\ (without # NullWindow /\ nextWindow # NullWindow) =>
                          nextWindow.startsAt >= without.startsAt

----------------------------------------------------------------------------
(* Duration text *)

Formatted == durationText # NotFormatted

\* C16: formatDuration(m) is "<m>m" when m < 60, "<h>h" when m is a multiple
\* of 60 and "<h>h <r>m" otherwise, with h = m div 60 and r = m mod 60; so
\* 135 gives "2h 15m", 45 gives "45m" and 120 gives "2h".
C16_DurationText ==
    Formatted =>
        LET m == durationInput
            h == m \div 60
            r == m % 60
        IN  /\ m < 60 => durationText = ToString(m) \o "m"
            /\ (m >= 60 /\ r = 0) => durationText = ToString(h) \o "h"
            /\ (m >= 60 /\ r # 0) => durationText = ToString(h) \o "h " \o ToString(r) \o "m"
            /\ m = 135 => durationText = "2h 15m"
            /\ m = 45 => durationText = "45m"
            /\ m = 120 => durationText = "2h"

C16_Witness == Formatted /\ durationInput = 120 /\ durationText = "2h"

----------------------------------------------------------------------------
(* Malformed TIME strings *)

\* not 2 or 3 non-negative integers with hour <= 23 and minute, second <= 59
IsMalformed(ts) ==
    \/ Len(ts) \notin {2, 3}
    \/ \E k \in 1..Len(ts) : ts[k] = NaN \/ ts[k] < 0
    \/ ts[1] > 23
    \/ \E k \in 2..Len(ts) : ts[k] > 59

HasCorruptRow ==
    \E i \in BlockIndices :
        IsMalformed(schedules[i].start_time) \/ IsMalformed(schedules[i].end_time)

HoursWellFormed ==
    ~IsMalformed(building.weekday_open) /\ ~IsMalformed(building.weekday_close)

\* C12: a malformed time string makes calculateAvailability fail instead of
\* returning a verdict; in particular a room with a corrupt schedule row (and
\* well-formed building hours) is never returned with isAvailable = true.
C12_CorruptRowNeverAvailable ==
    (Evaluated /\ HoursWellFormed /\ HasCorruptRow) => ~verdict.isAvailable

----------------------------------------------------------------------------
(* Precedence of the closed conditions *)

\* C21: on a weekday with stored hours an evaluation before opening is closed
\* with "Opens at <opening time>" (the stored opening time is 8:00:00) and an
\* evaluation after closing is closed with "Building closed", whatever blocks
\* are current or upcoming; on a weekday with a missing open or close time the
\* verdict is closed with "No classes today".
C21_ClosedTakesPrecedence ==
    (Evaluated /\ IsWeekday) =>
        /\ (HasHours /\ now < OpensAt) =>
               /\ verdict.status = "closed"
               /\ building.weekday_open = <<8, 0, 0>>
               /\ verdict.statusText = "Opens at 8:00 AM"
        /\ (HasHours /\ now > ClosesAt) =>
               /\ verdict.status = "closed"
               /\ verdict.statusText = "Building closed"
        /\ ~HasHours =>
               /\ verdict.status = "closed"
               /\ verdict.statusText = "No classes today"

C21_Witness ==
    /\ Evaluated /\ IsWeekday /\ HasHours
    /\ now < OpensAt
    /\ FutureStarts # {}
    /\ verdict.statusText = "Opens at 8:00 AM"

----------------------------------------------------------------------------
(* Shape of the verdict *)

\* C24: in every verdict isAvailable is true exactly when status is open, a
\* status of open, in_use or limited implies isBuildingOpen, and
\* currentClassEndsAt is non-null exactly when status is in_use.
C24_VerdictShape ==
    Evaluated =>
        /\ verdict.isAvailable = (verdict.status = "open")
        /\ verdict.status \in {"open", "in_use", "limited"} => verdict.isBuildingOpen
        /\ (verdict.currentClassEndsAt # Null) = (verdict.status = "in_use")

C24_Witness ==
    /\ Evaluated
    /\ verdict.status = "limited"
    /\ verdict.isBuildingOpen
    /\ verdict.currentClassEndsAt = Null

----------------------------------------------------------------------------
(* Windows against the closing time and against the blocks *)

\* C26: every window the gap finder returns lies inside the building's open
\* time: it starts not after dayClosesAt and startsAt plus durationMinutes
\* does not exceed dayClosesAt.
C26_WindowInsideOpenTime ==
    (Called /\ nextWindow # NullWindow) =>
        /\ nextWindow.startsAt <= buildingCloses
        /\ nextWindow.startsAt + nextWindow.durationMinutes * 60000 <= buildingCloses

\* C27: for every block set, overlapping and nested blocks included, a window
\* the gap finder returns starts at or after fromTime and no block is active
\* at any instant of [startsAt, startsAt + durationMinutes).
C27_WindowIsFree ==
    (Called /\ nextWindow # NullWindow) =>
        LET windowEnd == nextWindow.startsAt + nextWindow.durationMinutes * 60000
        IN  /\ nextWindow.startsAt >= fromTime
            /\ \A i \in BlockIndices :
                   ~(WStart(i) < windowEnd /\ nextWindow.startsAt < WEnd(i))

----------------------------------------------------------------------------
(* Inputs are only read *)

\* C22: calculateAvailability, isBuildingOpen, parseTimeToday and
\* findNextUsableWindow leave their inputs unchanged: across every evaluation
\* the schedules array holds the same rows in the same order with the same
\* start and end strings, the building's hours are the same, and the Date
\* passed in as reference instant still denotes the instant the caller read.
C22_InputsUnchanged ==
    /\ [][schedules' = schedules /\ building' = building]_vars
    /\ [](Evaluated => now = clock)

C22_Witness ==
    /\ Evaluated
    /\ verdict.status = "in_use"
    /\ Len(schedules) = 2
    /\ BlockStart(1) > BlockStart(2)
    /\ now = clock

----------------------------------------------------------------------------
(* The time text of the three status formatters on its own *)

\* every minute of a day, at its first and at its last second
ClockInstants ==
    {At(Monday, h, m, sec, 0) : h \in 0..23, m \in 0..59, sec \in {0, 59}}

ClockDurations == {45, 90}

ClockInit ==
    /\ timeInput \in ClockInstants
    /\ durationInput \in ClockDurations
    /\ timeTexts = NoTexts
    /\ durationText = NotFormatted
    /\ schedules = <<>>
    /\ fromTime = Null
    /\ buildingCloses = Null
    /\ nextWindow = NotCalled
    /\ building = [weekday_open |-> <<>>, weekday_close |-> <<>>]
    /\ now = Null
    /\ clock = now
    /\ verdict = NoVerdict
    /\ HookIdle

\* the same Date through "Opens at" (formatTimeUntil), "Free at"
\* (formatFreeAtWithDuration) and "Free until" (formatFreeUntilWithDuration)
FormatClock ==
    /\ timeTexts = NoTexts
    /\ timeTexts' =
          [opensAt |-> formatTimeUntil(timeInput, "Opens at"),
           freeAt |-> formatFreeAtWithDuration(timeInput, durationInput),
           freeUntil |-> formatFreeUntilWithDuration(timeInput, durationInput)]
    /\ UNCHANGED <<building, schedules, now, verdict, fromTime, buildingCloses,
                   nextWindow, durationInput, durationText, clock, timeInput, hookVars>>

ClockNext == FormatClock

ClockSpec == ClockInit /\ [][ClockNext]_vars

ClockFormatted == timeTexts # NoTexts

\* hour and minute of the day of timeInput
HourOfInput == (timeInput % 86400000) \div 3600000
MinuteOfInput == (timeInput % 3600000) \div 60000

\* the 12-hour text of hour h, minute m: hour unpadded, minutes on two digits
TwelveHourText(h, m) ==
    LET hourText == IF h = 0 THEN "12"
                    ELSE IF h <= 12 THEN ToString(h)
                    ELSE ToString(h - 12)
        minuteText == IF m < 10 THEN "0" \o ToString(m) ELSE ToString(m)
        suffix == IF h < 12 THEN "AM" ELSE "PM"
    IN  hourText \o ":" \o minuteText \o " " \o suffix

\* C23: for every hour 0..23 and minute 0..59 the three formatters show the
\* instant with the same 12-hour text: hour 0 as 12 AM, hours 1-11 as 1-11 AM,
\* hour 12 as 12 PM, hours 13-23 as 1-11 PM, the hour unpadded and the minutes
\* zero-padded to two digits.
C23_TwelveHourClock ==
    ClockFormatted =>
        LET T == TwelveHourText(HourOfInput, MinuteOfInput)
            D == IF durationInput = 45 THEN "45m" ELSE "1h 30m"
        IN  /\ HourOfInput \in 0..23 /\ MinuteOfInput \in 0..59
            /\ timeTexts.opensAt = "Opens at " \o T
            /\ timeTexts.freeAt = "Free at " \o T \o " for " \o D
            /\ timeTexts.freeUntil = "Free until " \o T \o " (" \o D \o ")"
            /\ (HourOfInput = 0 /\ MinuteOfInput = 5) => timeTexts.opensAt = "Opens at 12:05 AM"
            /\ (HourOfInput = 12 /\ MinuteOfInput = 0) => timeTexts.opensAt = "Opens at 12:00 PM"
            /\ (HourOfInput = 13 /\ MinuteOfInput = 59) => timeTexts.opensAt = "Opens at 1:59 PM"

C23_Witness ==
    /\ ClockFormatted
    /\ HourOfInput = 12 /\ MinuteOfInput = 5
    /\ timeTexts.freeUntil = "Free until 12:05 PM (45m)"

----------------------------------------------------------------------------
(* A day of blocks inside the building's hours, evaluated again and again *)

DayBlockTimes ==
    {<<9, 0, 0>>, <<10, 15>>, <<10, 44, 59>>, <<12, 0, 0>>, <<13, 0>>, <<21, 45, 0>>}

DayBlocks ==
    {b \in [start_time : DayBlockTimes, end_time : DayBlockTimes] :
        parseTimeToday(b.start_time, 0) < parseTimeToday(b.end_time, 0)}

\* instants before, inside, at the end of and between the blocks of the day
DayInstants ==
    {At(Monday, 8, 30, 0, 1), At(Monday, 8, 50, 0, 0), At(Monday, 9, 0, 0, 0),
     At(Monday, 9, 30, 0, 0), At(Monday, 10, 15, 0, 0), At(Monday, 10, 20, 30, 0),
     At(Monday, 10, 44, 59, 0), At(Monday, 11, 45, 0, 0), At(Monday, 12, 0, 0, 0),
     At(Monday, 12, 30, 0, 0), At(Monday, 13, 0, 0, 0), At(Monday, 21, 30, 0, 0),
     At(Monday, 21, 45, 0, 0)}

PredictionInit ==
    /\ building = [weekday_open |-> <<8, 0, 0>>, weekday_close |-> <<22, 0, 0>>]
    /\ schedules \in SeqsUpTo(DayBlocks, MaxBlocks)
    /\ now \in DayInstants
    /\ clock = now
    /\ verdict = NoVerdict
    /\ fromTime = Null
    /\ buildingCloses = Null
    /\ nextWindow = NotCalled
    /\ durationInput = 0
    /\ durationText = NotFormatted
    /\ ClockIdle
    /\ HookIdle

PredictionRefresh == RefreshAt(DayInstants)

PredictionNext == PredictionRefresh

PredictionSpec == PredictionInit /\ [][PredictionNext]_vars

\* blocks pairwise non-overlapping and inside the building's hours
DisjointWithinHours ==
    /\ \A i, j \in BlockIndices :
           i # j => (BlockEnd(i) <= BlockStart(j) \/ BlockEnd(j) <= BlockStart(i))
    /\ \A i \in BlockIndices : OpensAt <= BlockStart(i) /\ BlockEnd(i) <= ClosesAt

\* the window behind the text of an in_use or limited verdict
PredictedWindow ==
    findNextUsableWindow(schedules,
        IF verdict.status = "in_use" THEN verdict.currentClassEndsAt ELSE now,
        ClosesAt)

\* the verdict predicts "Free at T for D"
Predicts ==
    /\ Evaluated
    /\ IsWeekday /\ HasHours /\ DisjointWithinHours
    /\ verdict.status \in {"in_use", "limited"}
    /\ PredictedWindow # NullWindow
    /\ verdict.statusText =
          formatFreeAtWithDuration(PredictedWindow.startsAt, PredictedWindow.durationMinutes)

----------------------------------------------------------------------------
(* The useClassrooms hook: fetches that overlap *)

\* A run is one call of fetchClassrooms.  Runs are numbered in the order they
\* start; the list a run computes, the Date it computed it for and the
\* message of its failure are denoted by the number of the run; classrooms = 0
\* is the empty list of useState([]).

MaxRuns == 2

\* pages of class_schedules a run may fetch
MaxPages == 2

IdleRun == [pc |-> "idle", page |-> 0, pull |-> FALSE]

HookInit ==
    /\ runs = [r \in 1..MaxRuns |-> IdleRun]
    /\ classrooms = 0
    /\ testTime = Null
    /\ isLoading = TRUE
    /\ error = Null
    /\ refreshing = FALSE
    /\ building = [weekday_open |-> <<>>, weekday_close |-> <<>>]
    /\ schedules = <<>>
    /\ now = Null
    /\ clock = now
    /\ verdict = NoVerdict
    /\ fromTime = Null
    /\ buildingCloses = Null
    /\ nextWindow = NotCalled
    /\ durationInput = 0
    /\ durationText = NotFormatted
    /\ ClockIdle

availabilityVars ==
    <<building, schedules, now, verdict, fromTime, buildingCloses, nextWindow,
      durationInput, durationText, clock, clockVars>>

StartedRuns == {r \in DOMAIN runs : runs[r].pc # "idle"}

InFlight(r) == runs[r].pc \in {"classrooms", "schedules"}

\* fetchClassrooms up to its first await: setIsLoading(true), setError(null),
\* and the classrooms query is sent
fetchClassroomsStart(r, pull) ==
    /\ runs' = [runs EXCEPT ![r] = [pc |-> "classrooms", page |-> 0, pull |-> pull]]
    /\ isLoading' = TRUE
    /\ error' = Null
    /\ UNCHANGED <<classrooms, testTime, availabilityVars>>

\* the catch and finally blocks: setError(message), setIsLoading(false); a
\* run awaited by handleRefresh then lets it call setRefreshing(false)
fetchClassroomsFail(r) ==
    /\ runs' = [runs EXCEPT ![r].pc = "failed"]
    /\ error' = r
    /\ isLoading' = FALSE
    /\ refreshing' = IF runs[r].pull THEN FALSE ELSE refreshing
    /\ UNCHANGED <<classrooms, testTime, availabilityVars>>

\* useEffect(() => { fetchClassrooms(); }, [fetchClassrooms]) after the first render
Mount ==
    /\ StartedRuns = {}
    /\ fetchClassroomsStart(1, FALSE)
    /\ UNCHANGED refreshing

\* refetch called directly (the "Try Again" button); nothing in the hook
\* refuses a call while a run is in flight
refetch ==
    /\ StartedRuns # {}
    /\ Cardinality(StartedRuns) < MaxRuns
    /\ fetchClassroomsStart(Cardinality(StartedRuns) + 1, FALSE)
    /\ UNCHANGED refreshing

\* handleRefresh up to its await: setRefreshing(true), refetch()
handleRefresh ==
    /\ StartedRuns # {}
    /\ Cardinality(StartedRuns) < MaxRuns
    /\ refreshing' = TRUE
    /\ fetchClassroomsStart(Cardinality(StartedRuns) + 1, TRUE)

\* the classrooms query answers with an error
ClassroomsFailed ==
    \E r \in DOMAIN runs :
        /\ runs[r].pc = "classrooms"
        /\ fetchClassroomsFail(r)

\* the classrooms query answers with rows: the first page of schedules is asked for
ClassroomsFetched ==
    \E r \in DOMAIN runs :
        /\ runs[r].pc = "classrooms"
        /\ runs' = [runs EXCEPT ![r].pc = "schedules", ![r].page = 1]
        /\ UNCHANGED <<classrooms, testTime, isLoading, error, refreshing, availabilityVars>>

\* a page of schedules answers with an error
BatchFailed ==
    \E r \in DOMAIN runs :
        /\ runs[r].pc = "schedules"
        /\ fetchClassroomsFail(r)

\* a page of schedules answers full (batch.length === pageSize): the next one is asked for
BatchFull ==
    \E r \in DOMAIN runs :
        /\ runs[r].pc = "schedules"
        /\ runs[r].page < MaxPages
        /\ runs' = [runs EXCEPT ![r].page = runs[r].page + 1]
        /\ UNCHANGED <<classrooms, testTime, isLoading, error, refreshing, availabilityVars>>

\* the last page answers: the verdicts are computed and sorted,
\* setClassrooms, setTestTime, then finally setIsLoading(false)
BatchLast ==
    \E r \in DOMAIN runs :
        /\ runs[r].pc = "schedules"
        /\ runs' = [runs EXCEPT ![r].pc = "done"]
        /\ classrooms' = r
        /\ testTime' = r
        /\ isLoading' = FALSE
        /\ refreshing' = IF runs[r].pull THEN FALSE ELSE refreshing
        /\ UNCHANGED <<error, availabilityVars>>

HookNext ==
    \/ Mount
    \/ refetch
    \/ handleRefresh
    \/ ClassroomsFailed
    \/ ClassroomsFetched
    \/ BatchFailed
    \/ BatchFull
    \/ BatchLast

HookSpec == HookInit /\ [][HookNext]_vars

LastStarted == CHOOSE r \in StartedRuns : \A q \in StartedRuns : q <= r

====
